---- MODULE Spec2Model ----
(***************************************************************************)
(* EasyParts.py: the download scheduler (MainWindow), its workers          *)
(* (DownloadWorker.run on pool threads) and the queued signal channel      *)
(* between them.                                                           *)
(*                                                                         *)
(* Spec          the controller and the worker threads over several items,  *)
(*               transfers abstracted to their control flow and to the     *)
(*               existence of the .part file and of the final file.        *)
(* SpecBatch     Spec with a user who only adds items and starts the queue.*)
(* SpecPump      Spec over one more row and a longer session, with a user  *)
(*               who adds, removes, starts and sets the ceiling.           *)
(* SpecFail      Spec with a network in which every fetch fails.           *)
(* SpecDisk      SpecBatch with a file system whose operations may fail.   *)
(* SpecTransfer  one item and its worker, the transfer byte by byte: the   *)
(*               resource of the server, the contents of the files, the    *)
(*               byte counters and the progress events.                    *)
(* SpecReadmit   SpecTransfer with a user who starts and cancels, no network*)
(*               failure, and fair threads and deliveries.                 *)
(* SpecProgress  SpecTransfer with a user who only starts the item: one    *)
(*               run, its chunk writes against the deliveries.             *)
(* SpecOverall   _update_overall as a function of the item collection: the *)
(*               slots change sizes, byte counts and statuses and call it. *)
(*                                                                         *)
(* Modelling decisions:                                                    *)
(*  - signals emitted on a pool thread reach the slots of the main thread  *)
(*    through one FIFO (Qt queued connections): `queue`;                   *)
(*  - every slot runs to its end on the main thread: one action each;      *)
(*  - QThreadPool.start(w) begins one more execution of w.run, also when   *)
(*    an execution of w is still active or has ended;                      *)
(*  - an exception raised in a slot (IndexError on self.items[index])      *)
(*    ends that slot, the event is dropped;                                *)
(*  - an item is identified with its URL: distinct items have distinct     *)
(*    URLs, so no two items share a .part file or a final file;            *)
(*  - progress and error events change no scheduling state and are left    *)
(*    out of `queue` in Spec; the file system fails in SpecDisk only;      *)
(*  - the user's operations are counted, and at most `budget` of them    *)
(*    (MaxOps, PumpOps in SpecPump) are explored; the steps of threads     *)
(*    and the deliveries are not counted;                                  *)
(*  - SpecTransfer: files are POSIX files (a path names an inode, an open  *)
(*    handle keeps its inode across os.replace, "ab" writes at the end of  *)
(*    the file, "wb" truncates at open and writes at its own position);    *)
(*    a write reaches the file at once; the server's answers are truthful  *)
(*    (Content-Length is the length of the body, a 206 body starts at the  *)
(*    requested offset); the resource does not change; chk_cleanup keeps   *)
(*    its default (unchecked), so that on_finished touches no file; one    *)
(*    statement of run is one step (item.downloaded += n is not split);    *)
(*  - SpecOverall: int(1000 * (done / total)) is the integer part of the   *)
(*    exact quotient (the float quotient gives the same integer for byte   *)
(*    counts up to the size); None and 0 are both 0, as `or` treats them.  *)
(***************************************************************************)
EXTENDS Integers, Sequences, FiniteSets, Bags, TLC

\* ---- bounds of the model
MaxItems == 2
MaxCeiling == 1
MaxQueue == 2
MaxRuns == 2
MaxOps == 5
MaxLen == 3
MaxChunk == 2
MaxPresses == 3
MaxRows == 3
MaxSize == 2
PumpItems == 3
PumpOps == 7

\* ---- program constants
InitialConcurrency == 3

InodeIds == 1..(MaxRuns + 2)

Eligible == {"Queued", "Paused", "Error", "Canceled"}
Terminal == {"Done", "Error", "Canceled"}

VARIABLES
    items,        \* MainWindow.items: the list of item objects (identifiers)
    status,       \* DownloadItem.status of every item object ("none": no such object)
    index,        \* DownloadItem.index of every item object
    workers,      \* MainWindow.workers: key -> worker object, 0 for no entry
    wItem,        \* DownloadWorker.item, 0 when the worker object does not exist
    wPause,       \* DownloadWorker._pause
    wStop,        \* DownloadWorker._stop
    runs,         \* executions of DownloadWorker.run in the pool: bag of [w, pc]
    queue,        \* signals emitted and not yet delivered to the main thread
    tempFile,     \* the .part file of an item exists
    finalFile,    \* the final file of an item exists
    max_concurrency,
    chk_extract,
    ops,          \* the number of user operations so far
    budget,       \* the number of user operations a behaviour may take
    extractNow,   \* the last step called extract_all
    extractAgain, \* ... for a batch extract_all was already called for
    batchDone,    \* extract_all was called and the batch has not changed since
    \* ---- SpecTransfer: the one item, its worker, the server and the disk
    item_status,  \* item.status
    downloaded,   \* item.downloaded, written by the worker and by on_progress
    size,         \* item.size, 0 for None
    worker,       \* self.workers holds the worker of the item
    w_pause,      \* worker._pause
    w_stop,       \* worker._stop
    executions,   \* executions of run: bag of [pc, resume_from, mode, body, chunk,
                  \*   h, pos, found]; found: the size the .part file had when
                  \*   the run began, 0 when there was none
    signals,      \* signals emitted and not yet delivered
    inodes,       \* the contents of the files, by inode
    temp_path,    \* the inode named by item.temp_path(), 0: no such file
    final_path,   \* the inode named by item.final_path(), 0: no such file
    content,      \* the resource of the server, a sequence of bytes
    presses,      \* the number of user operations so far (bounded by MaxPresses)
    \* ---- SpecOverall
    collection,   \* self.items as [size, downloaded, status], size 0 for None
    overall_bar,  \* the value last given to overall_bar.setValue
    fresh         \* _update_overall was called since the collection last changed

vars == <<items, status, index, workers, wItem, wPause, wStop, runs, queue,
          tempFile, finalFile, max_concurrency, chk_extract, ops, budget,
          extractNow, extractAgain, batchDone,
          item_status, downloaded, size, worker, w_pause, w_stop, executions,
          signals, inodes, temp_path, final_path, content, presses,
          collection, overall_bar, fresh>>

overallVars == <<collection, overall_bar, fresh>>

schedulerVars ==
    <<items, status, index, workers, wItem, wPause, wStop, runs, queue,
      tempFile, finalFile, max_concurrency, chk_extract, ops, budget,
      extractNow, extractAgain, batchDone>>

\* the identifiers of the objects a behaviour may hold
ItemIds == DOMAIN status
WorkerIds == DOMAIN wItem
Keys == DOMAIN workers

transferVars ==
    <<item_status, downloaded, size, worker, w_pause, w_stop, executions,
      signals, inodes, temp_path, final_path, content, presses>>

\* The controller's and the workers' state as one value, so that the handlers
\* are functions from state to state as the methods are.
Cur ==
    [items |-> items, status |-> status, index |-> index, workers |-> workers,
     wItem |-> wItem, wPause |-> wPause, wStop |-> wStop, runs |-> runs,
     queue |-> queue, tempFile |-> tempFile, finalFile |-> finalFile,
     maxc |-> max_concurrency, extract |-> chk_extract, ops |-> ops,
     x |-> FALSE, ok |-> TRUE]

Range(f) == {f[k] : k \in DOMAIN f}

LiveWorkers(s) == (Range(s.workers) \ {0}) \cup {r.w : r \in BagToSet(s.runs)}

LiveItems(s) == Range(s.items) \cup {s.wItem[w] : w \in LiveWorkers(s)}

AllTerminal(s) == \A p \in DOMAIN s.items : s.status[s.items[p]] \in Terminal

\* Objects nobody refers to any more are dropped (Python's reference counting);
\* an identifier that is used again stands for another URL, with no file on disk.
Dropped(s, lw, li) ==
    [s EXCEPT
        !.wItem = [w \in WorkerIds |-> IF w \in lw THEN s.wItem[w] ELSE 0],
        !.wPause = [w \in WorkerIds |-> IF w \in lw THEN s.wPause[w] ELSE FALSE],
        !.wStop = [w \in WorkerIds |-> IF w \in lw THEN s.wStop[w] ELSE FALSE],
        !.status = [i \in ItemIds |-> IF i \in li THEN s.status[i] ELSE "none"],
        !.index = [i \in ItemIds |-> IF i \in li THEN s.index[i] ELSE 0],
        !.tempFile = [i \in ItemIds |-> IF i \in li THEN s.tempFile[i] ELSE FALSE],
        !.finalFile = [i \in ItemIds |-> IF i \in li THEN s.finalFile[i] ELSE FALSE]]

Collect(s) == Dropped(s, LiveWorkers(s), LiveItems(s))

Assign(s) ==
    /\ items' = s.items
    /\ status' = s.status
    /\ index' = s.index
    /\ workers' = s.workers
    /\ wItem' = s.wItem
    /\ wPause' = s.wPause
    /\ wStop' = s.wStop
    /\ runs' = s.runs
    /\ queue' = s.queue
    /\ tempFile' = s.tempFile
    /\ finalFile' = s.finalFile
    /\ max_concurrency' = s.maxc
    /\ chk_extract' = s.extract
    /\ ops' = s.ops
    /\ budget' = budget
    /\ extractNow' = s.x
    /\ extractAgain' = (s.x /\ batchDone)
    /\ batchDone' = IF s.x THEN TRUE
                    ELSE batchDone /\ s.items = items /\ AllTerminal(s)
    /\ UNCHANGED transferVars
    /\ UNCHANGED overallVars

Bounded(s) ==
    /\ s.ok
    /\ BagCardinality(s.runs) <= MaxRuns
    /\ Len(s.queue) <= MaxQueue
    /\ s.ops <= budget
    /\ Assign(Collect(s))

\* The step to state s, within the bounds of the model.
Commit(s) == Bounded(s)

\* a step of the user: one more operation
User(s) == [s EXCEPT !.ops = @ + 1]

\* MainWindow.__init__, in a model of at most n item objects and m operations
InitSchedulerWith(n, m) ==
    /\ items = << >>
    /\ status = [i \in 1..n |-> "none"]
    /\ index = [i \in 1..n |-> 0]
    /\ workers = [k \in 0..(n - 1) |-> 0]
    /\ wItem = [w \in 1..(n + MaxRuns) |-> 0]
    /\ wPause = [w \in 1..(n + MaxRuns) |-> FALSE]
    /\ wStop = [w \in 1..(n + MaxRuns) |-> FALSE]
    /\ runs = EmptyBag
    /\ queue = << >>
    /\ tempFile = [i \in 1..n |-> FALSE]
    /\ finalFile = [i \in 1..n |-> FALSE]
    /\ budget = m
    /\ max_concurrency = InitialConcurrency
    /\ chk_extract = TRUE
    /\ ops = 0
    /\ extractNow = FALSE
    /\ extractAgain = FALSE
    /\ batchDone = FALSE

InitScheduler == InitSchedulerWith(MaxItems, MaxOps)

\* no item: nothing of SpecTransfer's
InitNoTransfer ==
    /\ item_status = "none"
    /\ downloaded = 0
    /\ size = 0
    /\ worker = FALSE
    /\ w_pause = FALSE
    /\ w_stop = FALSE
    /\ executions = EmptyBag
    /\ signals = << >>
    /\ inodes = [i \in InodeIds |-> << >>]
    /\ temp_path = 0
    /\ final_path = 0
    /\ content = << >>
    /\ presses = 0

\* the bar before any call of _update_overall
InitNoOverall ==
    /\ collection = << >>
    /\ overall_bar = 0
    /\ fresh = FALSE

Init == InitScheduler /\ InitNoTransfer /\ InitNoOverall

\* ---------------------------------------------------------------------------
\* MainWindow: the controller's methods as functions of the state
\* ---------------------------------------------------------------------------

Min(S) == CHOOSE x \in S : \A y \in S : x <= y
Max(S) == CHOOSE x \in S : \A y \in S : x >= y

Rows(s) == 0..(Len(s.items) - 1)

\* DownloadWorker(item) stored at self.workers[key]
Created(s, key, it, w) ==
    [s EXCEPT !.wItem[w] = it, !.wPause[w] = FALSE, !.wStop[w] = FALSE, !.workers[key] = w]

NewWorkerFrom(s, key, it, free) ==
    IF free = {} THEN [s EXCEPT !.ok = FALSE] ELSE Created(s, key, it, Min(free))

NewWorker(s, key, it) == NewWorkerFrom(s, key, it, WorkerIds \ LiveWorkers(s))

\* threadpool.start(w)
StartRun(s, w) == [s EXCEPT !.runs = @ (+) SetToBag({[w |-> w, pc |-> "start"]})]

\* One admission of _pump_queue's loop body: create or reuse the worker stored
\* under item.index, request_resume, mark the item Downloading, start the worker.
Resumed(s, it, w) ==
    StartRun([s EXCEPT !.wPause[w] = FALSE, !.status[it] = "Downloading"], w)

AdmitWith(s, it, key) == IF ~s.ok THEN s ELSE Resumed(s, it, s.workers[key])

Admit(s, it) ==
    AdmitWith(IF s.workers[s.index[it]] = 0 THEN NewWorker(s, s.index[it], it) ELSE s,
              it, s.index[it])

\* (mutant of PumpScan) the list is scanned from its end
RECURSIVE PumpScanBackward(_, _, _)
PumpScanBackward(s, pos, slots) ==
    IF pos > Len(s.items) \/ slots <= 0 \/ ~s.ok THEN s
    ELSE IF s.status[s.items[Len(s.items) + 1 - pos]] \in Eligible
         THEN PumpScanBackward(Admit(s, s.items[Len(s.items) + 1 - pos]), pos + 1, slots - 1)
         ELSE PumpScanBackward(s, pos + 1, slots)

\* the loop of _pump_queue over self.items, from position pos on
RECURSIVE PumpScan(_, _, _)
PumpScan(s, pos, slots) ==
    IF pos > Len(s.items) \/ slots <= 0 \/ ~s.ok THEN s
    ELSE IF s.status[s.items[pos]] \in Eligible
         THEN PumpScan(Admit(s, s.items[pos]), pos + 1, slots - 1)
         ELSE PumpScan(s, pos + 1, slots)

\* active = sum(1 for w in self.workers.values() if w and w.item.status == "Downloading")
ActiveCount(s) ==
    Cardinality({k \in Keys : s.workers[k] # 0
                              /\ s.status[s.wItem[s.workers[k]]] = "Downloading"})

PumpWith(s, available_slots) ==
    IF available_slots <= 0 THEN s ELSE PumpScan(s, 1, available_slots)

PumpQueue(s) == PumpWith(s, s.maxc - ActiveCount(s))

\* _add_item: a new Queued item at the end of the list; no pump
AddItemTo(s, it) ==
    [s EXCEPT !.items = Append(@, it), !.status[it] = "Queued",
              !.index[it] = Len(s.items)]

\* the loop shared by pause_selected, resume_selected and cancel_selected:
\* for the rows that have a worker under that key, set a flag of the worker
\* and the status of the item displayed in the row
PauseHit(s, hit) ==
    [s EXCEPT
        !.wPause = [w \in WorkerIds |->
                       IF \E r \in hit : s.workers[r] = w THEN TRUE ELSE @[w]],
        !.status = [i \in ItemIds |->
                       IF \E r \in hit : s.items[r + 1] = i THEN "Paused" ELSE @[i]]]

PauseRows(s, rows) == PauseHit(s, {r \in rows : s.workers[r] # 0})

ResumeHit(s, hit) ==
    [s EXCEPT
        !.wPause = [w \in WorkerIds |->
                       IF \E r \in hit : s.workers[r] = w THEN FALSE ELSE @[w]],
        !.status = [i \in ItemIds |->
                       IF \E r \in hit : s.items[r + 1] = i THEN "Downloading" ELSE @[i]]]

ResumeRows(s, rows) == ResumeHit(s, {r \in rows : s.workers[r] # 0})

CancelHit(s, hit) ==
    [s EXCEPT
        !.wStop = [w \in WorkerIds |->
                       IF \E r \in hit : s.workers[r] = w THEN TRUE ELSE @[w]],
        !.status = [i \in ItemIds |->
                       IF \E r \in hit : s.items[r + 1] = i THEN "Canceled" ELSE @[i]]]

CancelRows(s, rows) == CancelHit(s, {r \in rows : s.workers[r] # 0})

DeleteAt(q, p) == [j \in 1..(Len(q) - 1) |-> IF j < p THEN q[j] ELSE q[j + 1]]

\* for i, it in enumerate(self.items): it.index = i
Reindex(s) ==
    [s EXCEPT !.index = [i \in ItemIds |->
                            IF \E p \in DOMAIN s.items : s.items[p] = i
                            THEN (CHOOSE p \in DOMAIN s.items : s.items[p] = i) - 1
                            ELSE @[i]]]

\* the loop of remove_selected over the rows, highest row first
RECURSIVE RemoveRows(_, _)
RemoveRow(s, row) ==
    [(IF s.workers[row] # 0 THEN [s EXCEPT !.wStop[s.workers[row]] = TRUE] ELSE s)
        EXCEPT !.items = DeleteAt(@, row + 1), !.workers[row] = 0]

RemoveRows(s, rows) ==
    IF rows = {} THEN s ELSE RemoveRows(RemoveRow(s, Max(rows)), rows \ {Max(rows)})

RemoveSelected(s, rows) == Reindex(RemoveRows(s, rows))

SelectSeq2(q, keep) ==
    LET F[n \in 0..Len(q)] ==
            IF n = 0 THEN << >>
            ELSE IF keep[q[n]] THEN Append(F[n - 1], q[n]) ELSE F[n - 1]
    IN  F[Len(q)]

ClearFinished(s) ==
    [Reindex([s EXCEPT !.items = SelectSeq2(@, [i \in ItemIds |-> s.status[i] \notin Terminal])])
        EXCEPT !.workers = [k \in Keys |-> 0]]

\* on_status: self.items[index].status = status
OnStatusApply(s, e) ==
    IF e.index < Len(s.items)
    THEN [s EXCEPT !.status[s.items[e.index + 1]] = e.status]
    ELSE s

\* the condition of on_finished:
\*   all(it.status in ("Done", "Error", "Canceled") for it in self.items if self.items)
FinishedCondition(s) == AllTerminal(s)

\* extract_all, then _cleanup_parts when chk_cleanup is checked and the
\* extraction succeeded: every .part file is deleted, and the final files
\* whose names match (those of the items in `del`)
ExtractAll(s, cleanup, del) ==
    IF cleanup
    THEN [s EXCEPT !.x = TRUE,
                   !.tempFile = [i \in ItemIds |-> FALSE],
                   !.finalFile = [i \in ItemIds |-> IF i \in del THEN FALSE ELSE @[i]]]
    ELSE [s EXCEPT !.x = TRUE]

OnFinishedApply(s, cleanup, del) ==
    IF FinishedCondition(s) /\ s.extract THEN ExtractAll(s, cleanup, del) ELSE s

\* ---------------------------------------------------------------------------
\* the controller's actions (slots run on the main thread)
\* ---------------------------------------------------------------------------

AddItem ==
    /\ Len(items) < Cardinality(ItemIds)
    /\ ItemIds \ LiveItems(Cur) # {}
    /\ Commit(User(AddItemTo(Cur, Min(ItemIds \ LiveItems(Cur)))))

StartQueue ==
    /\ ops < budget
    /\ Commit(User(PumpQueue(Cur)))

UpdateConcurrency ==
    \E val \in 1..MaxCeiling :
        /\ val # max_concurrency
        /\ Commit(User(PumpQueue([Cur EXCEPT !.maxc = val])))

PauseSelectedOp == \E rows \in SUBSET Rows(Cur) : Commit(User(PauseRows(Cur, rows)))

ResumeSelectedOp ==
    \E rows \in SUBSET Rows(Cur) : Commit(User(PumpQueue(ResumeRows(Cur, rows))))

CancelSelectedOp == \E rows \in SUBSET Rows(Cur) : Commit(User(CancelRows(Cur, rows)))

RemoveSelectedOp ==
    \E rows \in (SUBSET Rows(Cur)) \ {{}} : Commit(User(RemoveSelected(Cur, rows)))

ClearFinishedOp ==
    /\ ops < budget
    /\ Commit(User(ClearFinished(Cur)))

ToggleExtract ==
    /\ ops < budget
    /\ Commit(User([Cur EXCEPT !.extract = ~@]))

Dequeued == [Cur EXCEPT !.queue = Tail(@)]

OnStatus ==
    /\ queue # << >>
    /\ Head(queue).kind = "status"
    /\ Commit(OnStatusApply(Dequeued, Head(queue)))

OnFinished ==
    /\ queue # << >>
    /\ Head(queue).kind = "finished"
    /\ \E cleanup \in BOOLEAN :
         \E del \in (IF cleanup THEN SUBSET ItemIds ELSE {{}}) :
            Commit(OnFinishedApply(Dequeued, cleanup, del))

\* ---------------------------------------------------------------------------
\* DownloadWorker.run on a pool thread: the steps of one execution r = [w, pc]
\* ---------------------------------------------------------------------------

RunSet == BagToSet(runs)

One(r) == SetToBag({r})

Moved(s, r, pc) == [s EXCEPT !.runs = (@ (-) One(r)) (+) One([r EXCEPT !.pc = pc])]

Ended(s, r) == [s EXCEPT !.runs = @ (-) One(r)]

\* self.signals.status.emit(item.index, status): item.index as it is now
EmitStatus(s, r, st) ==
    [s EXCEPT !.queue = Append(@, [kind |-> "status", index |-> s.index[s.wItem[r.w]],
                                   status |-> st])]

EmitFinished(s, r) ==
    [s EXCEPT !.queue = Append(@, [kind |-> "finished", index |-> s.index[s.wItem[r.w]],
                                   status |-> "Done"])]

\* lines 185-196: the .part file exists: resume; else the final file exists:
\* nothing to fetch, Done is reported; else a fresh download
RunBegin(s, r) ==
    IF s.tempFile[s.wItem[r.w]] THEN Moved(s, r, "probe")
    ELSE IF s.finalFile[s.wItem[r.w]] THEN Moved(s, r, "done")
    ELSE Moved(s, r, "probe")

\* lines 198-213: the HEAD request, whatever its outcome, then status Downloading
RunProbed(s, r) == Moved(EmitStatus(s, r, "Downloading"), r, "get")

\* lines 262-265: except RequestException: status Error, the run ends
RunFailed(s, r) == Ended(EmitStatus(s, r, "Error"), r)

\* lines 215-238: the GET succeeded, the .part file is opened (created)
RunOpened(s, r) == Moved([s EXCEPT !.tempFile[s.wItem[r.w]] = TRUE], r, "stream")

\* lines 240-247: a chunk has arrived; a cancel ends the run, a pause holds it
RunChunkArrived(s, r) ==
    IF s.wStop[r.w] THEN Ended(EmitStatus(s, r, "Canceled"), r)
    ELSE IF s.wPause[r.w] THEN Moved(EmitStatus(s, r, "Paused"), r, "paused")
    ELSE s

\* lines 245-247: one more turn of the pause loop
RunPausedTurn(s, r) == EmitStatus(s, r, "Paused")

\* lines 248-251: the pause loop is left, the chunk is written
RunPauseLeft(s, r) == Moved(s, r, "stream")

\* line 258: os.replace(temp_path, final_path) after the last chunk; without a
\* .part file it raises OSError, which run does not catch: the run ends silently
RunRenamed(s, r) ==
    IF s.tempFile[s.wItem[r.w]]
    THEN Moved([s EXCEPT !.tempFile[s.wItem[r.w]] = FALSE,
                         !.finalFile[s.wItem[r.w]] = TRUE], r, "done")
    ELSE Ended(s, r)

\* lines 194 and 260: status Done
RunDoneStatus(s, r) == Moved(EmitStatus(s, r, "Done"), r, "finished")

\* lines 195 and 261: finished, the run ends
RunFinishedSignal(s, r) == Ended(EmitFinished(s, r), r)

RunStart == \E r \in RunSet : r.pc = "start" /\ Commit(RunBegin(Cur, r))

RunProbe == \E r \in RunSet : r.pc = "probe" /\ Commit(RunProbed(Cur, r))

RunGetError == \E r \in RunSet : r.pc = "get" /\ Commit(RunFailed(Cur, r))

RunGetOk == \E r \in RunSet : r.pc = "get" /\ Commit(RunOpened(Cur, r))

RunChunk ==
    \E r \in RunSet :
        /\ r.pc = "stream"
        /\ wStop[r.w] \/ wPause[r.w]
        /\ Commit(RunChunkArrived(Cur, r))

RunPaused ==
    \E r \in RunSet :
        /\ r.pc = "paused"
        /\ wPause[r.w] /\ ~wStop[r.w]
        /\ Commit(RunPausedTurn(Cur, r))

RunUnpaused ==
    \E r \in RunSet :
        /\ r.pc = "paused"
        /\ ~(wPause[r.w] /\ ~wStop[r.w])
        /\ Commit(RunPauseLeft(Cur, r))

RunStreamError == \E r \in RunSet : r.pc = "stream" /\ Commit(RunFailed(Cur, r))

RunStreamEnd == \E r \in RunSet : r.pc = "stream" /\ Commit(RunRenamed(Cur, r))

RunEmitDone == \E r \in RunSet : r.pc = "done" /\ Commit(RunDoneStatus(Cur, r))

RunEmitFinished == \E r \in RunSet : r.pc = "finished" /\ Commit(RunFinishedSignal(Cur, r))

\* os.makedirs (line 179), open (238), f.write (250) or os.replace (258) raises
\* OSError: no handler in run catches it, the execution ends with no signal
RunDiskFailed(s, r) == Ended(s, r)

RunDiskError ==
    \E r \in RunSet : r.pc \in {"start", "get", "stream"} /\ Commit(RunDiskFailed(Cur, r))

Next ==
    \/ AddItem
    \/ StartQueue
    \/ UpdateConcurrency
    \/ PauseSelectedOp
    \/ ResumeSelectedOp
    \/ CancelSelectedOp
    \/ RemoveSelectedOp
    \/ ClearFinishedOp
    \/ ToggleExtract
    \/ OnStatus
    \/ OnFinished
    \/ RunStart
    \/ RunProbe
    \/ RunGetError
    \/ RunGetOk
    \/ RunChunk
    \/ RunPaused
    \/ RunUnpaused
    \/ RunStreamError
    \/ RunStreamEnd
    \/ RunEmitDone
    \/ RunEmitFinished

Spec == Init /\ [][Next]_vars

\* The user only adds items and starts the queue: a batch run to its end with
\* no pause, resume, cancel, removal or change of configuration.
NextBatch ==
    \/ AddItem
    \/ StartQueue
    \/ OnStatus
    \/ OnFinished
    \/ RunStart
    \/ RunProbe
    \/ RunGetError
    \/ RunGetOk
    \/ RunStreamError
    \/ RunStreamEnd
    \/ RunEmitDone
    \/ RunEmitFinished

SpecBatch == Init /\ [][NextBatch]_vars

\* A longer session over more rows with fewer kinds of operation: the user adds
\* and removes items, starts the queue and lowers the ceiling; transfers succeed.
InitPump == InitSchedulerWith(PumpItems, PumpOps) /\ InitNoTransfer /\ InitNoOverall

NextPump ==
    \/ AddItem
    \/ StartQueue
    \/ UpdateConcurrency
    \/ RemoveSelectedOp
    \/ OnStatus
    \/ OnFinished
    \/ RunStart
    \/ RunProbe
    \/ RunGetOk
    \/ RunStreamEnd
    \/ RunEmitDone
    \/ RunEmitFinished

SpecPump == InitPump /\ [][NextPump]_vars

\* Every fetch fails in the network (at the GET or while streaming); the user
\* adds and removes items and starts the queue.
NextFail ==
    \/ AddItem
    \/ StartQueue
    \/ RemoveSelectedOp
    \/ OnStatus
    \/ RunStart
    \/ RunProbe
    \/ RunGetError
    \/ RunGetOk
    \/ RunStreamError

SpecFail == Init /\ [][NextFail]_vars

\* The network does not fail, the file system may: a batch is added and started.
NextDisk ==
    \/ AddItem
    \/ StartQueue
    \/ OnStatus
    \/ OnFinished
    \/ RunStart
    \/ RunProbe
    \/ RunGetOk
    \/ RunDiskError
    \/ RunStreamEnd
    \/ RunEmitDone
    \/ RunEmitFinished

SpecDisk == Init /\ [][NextDisk]_vars

\* ---------------------------------------------------------------------------
\* SpecTransfer: one item and its worker; the server, the disk, the counters
\* ---------------------------------------------------------------------------

Xfer ==
    [status |-> item_status, downloaded |-> downloaded, size |-> size,
     worker |-> worker, pause |-> w_pause, stop |-> w_stop, runs |-> executions,
     queue |-> signals, inodes |-> inodes, temp |-> temp_path,
     final |-> final_path, presses |-> presses, ok |-> TRUE]

\* an inode lives as long as a path names it or a handle is open on it
UsedInodes(t) == ({t.temp, t.final} \cup {r.h : r \in BagToSet(t.runs)}) \ {0}

Freed(t, used) ==
    [t EXCEPT !.inodes = [i \in InodeIds |-> IF i \in used THEN @[i] ELSE << >>]]

XferAssign(t) ==
    /\ item_status' = t.status
    /\ downloaded' = t.downloaded
    /\ size' = t.size
    /\ worker' = t.worker
    /\ w_pause' = t.pause
    /\ w_stop' = t.stop
    /\ executions' = t.runs
    /\ signals' = t.queue
    /\ inodes' = t.inodes
    /\ temp_path' = t.temp
    /\ final_path' = t.final
    /\ presses' = t.presses
    /\ content' = content
    /\ UNCHANGED schedulerVars
    /\ UNCHANGED overallVars

\* The step to state t, within the bounds of the model.
XferCommit(t) ==
    /\ t.ok
    /\ BagCardinality(t.runs) <= MaxRuns
    /\ Len(t.queue) <= MaxQueue
    /\ t.presses <= MaxPresses
    /\ XferAssign(Freed(t, UsedInodes(t)))

Pressed(t) == [t EXCEPT !.presses = @ + 1]

\* the resource of n bytes; every byte differs from the others
Bytes(n) == [i \in 1..n |-> i]

\* The item was added (Queued, no worker yet). On the disk, left by an earlier
\* session: a .part file holding the first `part` bytes of the resource
\* (part = -1: none), and, when `done`, the final file holding all of it.
InitDisk(part, done) ==
    /\ temp_path = (IF part >= 0 THEN 1 ELSE 0)
    /\ final_path = (IF done THEN 2 ELSE 0)
    /\ inodes = [i \in InodeIds |->
                    IF i = 1 /\ part >= 0 THEN Bytes(part)
                    ELSE IF i = 2 /\ done THEN content
                    ELSE << >>]

InitTransfer ==
    /\ InitScheduler
    /\ InitNoOverall
    /\ item_status = "Queued"
    /\ downloaded = 0
    /\ size = 0
    /\ worker = FALSE
    /\ w_pause = FALSE
    /\ w_stop = FALSE
    /\ executions = EmptyBag
    /\ signals = << >>
    /\ presses = 0
    /\ \E n \in 1..MaxLen :
         /\ content = Bytes(n)
         /\ \E part \in (-1)..n : \E done \in BOOLEAN : InitDisk(part, done)

\* ---- the controller

NewRun ==
    [pc |-> "start", resume_from |-> 0, mode |-> "wb", body |-> << >>,
     chunk |-> << >>, h |-> 0, pos |-> 0, found |-> 0]

\* _pump_queue with the one item: at most one worker counts as active, and only
\* when the item is Downloading, so an eligible item always finds a free slot
PumpItem(t) ==
    IF t.status \in Eligible
    THEN [t EXCEPT !.worker = TRUE, !.pause = FALSE, !.status = "Downloading",
                   !.runs = @ (+) SetToBag({NewRun})]
    ELSE t

PauseItem(t) == IF t.worker THEN [t EXCEPT !.pause = TRUE, !.status = "Paused"] ELSE t

ResumeItem(t) ==
    IF t.worker THEN [t EXCEPT !.pause = FALSE, !.status = "Downloading"] ELSE t

CancelItem(t) == IF t.worker THEN [t EXCEPT !.stop = TRUE, !.status = "Canceled"] ELSE t

\* on_progress
OnProgressApply(t, e) ==
    [t EXCEPT !.downloaded = e.downloaded,
              !.size = IF e.total > 0 THEN e.total ELSE @]

Delivered == [Xfer EXCEPT !.queue = Tail(@)]

PressStart ==
    /\ presses < MaxPresses
    /\ XferCommit(Pressed(PumpItem(Xfer)))

PressPause ==
    /\ presses < MaxPresses
    /\ XferCommit(Pressed(PauseItem(Xfer)))

PressResume ==
    /\ presses < MaxPresses
    /\ XferCommit(Pressed(PumpItem(ResumeItem(Xfer))))

PressCancel ==
    /\ presses < MaxPresses
    /\ XferCommit(Pressed(CancelItem(Xfer)))

DeliverProgress ==
    /\ signals # << >>
    /\ Head(signals).kind = "progress"
    /\ XferCommit(OnProgressApply(Delivered, Head(signals)))

DeliverStatus ==
    /\ signals # << >>
    /\ Head(signals).kind = "status"
    /\ XferCommit([Delivered EXCEPT !.status = Head(signals).status])

\* on_finished: extract_all at most, which touches no file (chk_cleanup unchecked)
DeliverFinished ==
    /\ signals # << >>
    /\ Head(signals).kind = "finished"
    /\ XferCommit(Delivered)

\* ---- DownloadWorker.run with the bytes: the steps of one execution r

FetchSet == BagToSet(executions)

Replaced(t, r, r2) == [t EXCEPT !.runs = (@ (-) SetToBag({r})) (+) SetToBag({r2})]

\* the run returns (or dies): its handle is closed
Returned(t, r) == [t EXCEPT !.runs = @ (-) SetToBag({r})]

SignalStatus(t, st) ==
    [t EXCEPT !.queue = Append(@, [kind |-> "status", status |-> st,
                                   downloaded |-> 0, total |-> 0])]

\* self.signals.progress.emit(item.index, item.downloaded, item.size or -1)
SignalProgress(t) ==
    [t EXCEPT !.queue = Append(@, [kind |-> "progress", status |-> "",
                                   downloaded |-> t.downloaded,
                                   total |-> IF t.size = 0 THEN -1 ELSE t.size])]

SignalFinished(t) ==
    [t EXCEPT !.queue = Append(@, [kind |-> "finished", status |-> "",
                                   downloaded |-> 0, total |-> 0])]

\* lines 185-196: resume_from is the size of the .part file when there is one;
\* else, when the final file exists, its size is reported and the run is done
FetchBegin(t, r) ==
    IF t.temp # 0
    THEN Replaced(t, r, [r EXCEPT !.pc = "probe", !.resume_from = Len(t.inodes[t.temp]),
                                  !.found = Len(t.inodes[t.temp])])
    ELSE IF t.final # 0
    THEN Replaced(SignalProgress([t EXCEPT !.downloaded = Len(t.inodes[t.final]),
                                           !.size = Len(t.inodes[t.final])]),
                  r, [r EXCEPT !.pc = "done"])
    ELSE Replaced(t, r, [r EXCEPT !.pc = "probe"])

\* lines 198-213: HEAD fails ("fail"), or answers without a Content-Length
\* ("none": item.size = None) or with it ("length"); mode, the Range header and
\* item.downloaded follow resume_from; status Downloading is emitted
FetchProbed(t, r, head) ==
    Replaced(SignalStatus([t EXCEPT
                              !.size = IF head = "fail" THEN @
                                       ELSE IF head = "length" THEN Len(content)
                                       ELSE 0,
                              !.downloaded = IF r.resume_from > 0 THEN r.resume_from ELSE @],
                          "Downloading"),
             r, [r EXCEPT !.pc = "get",
                          !.mode = IF r.resume_from > 0 THEN "ab" ELSE "wb"])

\* lines 262-265: except RequestException: status Error, the run ends
FetchFailed(t, r) == Returned(SignalStatus(t, "Error"), r)

\* line 238: open(temp_path, mode) on inode ino, "wb" truncates
OpenedOn(t, r, ino, resume_from, mode, body) ==
    Replaced([t EXCEPT !.temp = ino,
                       !.inodes[ino] = IF mode = "wb" THEN << >> ELSE @],
             r, [r EXCEPT !.pc = "stream", !.resume_from = resume_from,
                          !.mode = mode, !.body = body, !.h = ino, !.pos = 0])

\* lines 229-236: the size is inferred from the Content-Length of the answer
Inferred(t, r, resume_from, mode, body, cl) ==
    OpenedOn([t EXCEPT !.size = IF @ = 0 /\ cl /\ Len(body) > 0
                                THEN Len(body) + resume_from ELSE @],
             r,
             IF t.temp # 0 THEN t.temp ELSE Min(InodeIds \ UsedInodes(t)),
             resume_from, mode, body)

\* lines 215-238: the answer to GET is 206 (the body starts at resume_from) or
\* 200 (the whole resource: a resumed run starts over), with a Content-Length
\* (cl) or without
FetchOpened(t, r, code, cl) ==
    IF code = 200 /\ r.resume_from > 0
    THEN Inferred([t EXCEPT !.downloaded = 0], r, 0, "wb", content, cl)
    ELSE IF code = 200
    THEN Inferred(t, r, r.resume_from, r.mode, content, cl)
    ELSE Inferred(t, r, r.resume_from, r.mode,
                  SubSeq(content, r.resume_from + 1, Len(content)), cl)

\* f.write(chunk) at position pos of a file
WriteAt(bytes, pos, chunk) ==
    [i \in 1..Max({Len(bytes), pos + Len(chunk)}) |->
        IF i > pos /\ i <= pos + Len(chunk) THEN chunk[i - pos]
        ELSE IF i <= Len(bytes) THEN bytes[i]
        ELSE 0]

Emitted(t, emit) == IF emit THEN SignalProgress(t) ELSE t

\* lines 250-255: the chunk is written, item.downloaded += len(chunk), and a
\* progress event is emitted when 0.05 s have passed since the last one (emit)
Written(t, r, r2, chunk, emit) ==
    Emitted(Replaced([t EXCEPT !.inodes[r.h] =
                                   WriteAt(@, IF r.mode = "ab" THEN Len(@) ELSE r.pos, chunk),
                               !.downloaded = @ + Len(chunk)],
                     r, [r2 EXCEPT !.pc = "stream", !.chunk = << >>,
                                   !.pos = @ + Len(chunk)]),
            emit)

\* lines 240-255: a chunk of k bytes has arrived; a cancel ends the run, a
\* pause holds the chunk, else it is written
FetchChunk(t, r, k, emit) ==
    IF t.stop THEN Returned(SignalStatus(t, "Canceled"), r)
    ELSE IF t.pause
    THEN Replaced(SignalStatus(t, "Paused"), r,
                  [r EXCEPT !.pc = "paused", !.chunk = SubSeq(r.body, 1, k),
                            !.body = SubSeq(r.body, k + 1, Len(r.body))])
    ELSE Written(t, r, [r EXCEPT !.body = SubSeq(r.body, k + 1, Len(r.body))],
                 SubSeq(r.body, 1, k), emit)

\* lines 245-247: one more turn of the pause loop
FetchPausedTurn(t, r) == SignalStatus(t, "Paused")

\* lines 248-255: the pause loop is left, the chunk held is written
FetchPauseLeft(t, r, emit) == Written(t, r, r, r.chunk, emit)

\* lines 257-259: the body has ended, the file is closed; os.replace, then the
\* last progress event; without a .part file os.replace raises OSError, which
\* run does not catch: the run dies
FetchRenamed(t, r) ==
    IF t.temp = 0 THEN Returned(t, r)
    ELSE Replaced(SignalProgress([t EXCEPT !.final = t.temp, !.temp = 0]),
                  r, [NewRun EXCEPT !.pc = "done", !.found = r.found])

\* lines 194 and 260: status Done
FetchDoneStatus(t, r) == Replaced(SignalStatus(t, "Done"), r, [r EXCEPT !.pc = "finished"])

\* lines 195 and 261: finished, the run returns
FetchFinishedSignal(t, r) == Returned(SignalFinished(t), r)

FetchStart == \E r \in FetchSet : r.pc = "start" /\ XferCommit(FetchBegin(Xfer, r))

FetchProbe ==
    \E r \in FetchSet : \E head \in {"fail", "none", "length"} :
        r.pc = "probe" /\ XferCommit(FetchProbed(Xfer, r, head))

\* the connection fails, or the server answers with an error status (416 for
\* a range that starts at or after the end of the resource)
FetchGetError == \E r \in FetchSet : r.pc = "get" /\ XferCommit(FetchFailed(Xfer, r))

FetchGetOk ==
    \E r \in FetchSet : \E code \in {200, 206} : \E cl \in BOOLEAN :
        /\ r.pc = "get"
        /\ code = 206 => (r.resume_from > 0 /\ r.resume_from < Len(content))
        /\ XferCommit(FetchOpened(Xfer, r, code, cl))

FetchNextChunk ==
    \E r \in FetchSet : \E k \in 1..MaxChunk : \E emit \in BOOLEAN :
        /\ r.pc = "stream"
        /\ k <= Len(r.body)
        /\ XferCommit(FetchChunk(Xfer, r, k, emit))

FetchPaused ==
    \E r \in FetchSet :
        /\ r.pc = "paused"
        /\ w_pause /\ ~w_stop
        /\ XferCommit(FetchPausedTurn(Xfer, r))

FetchUnpaused ==
    \E r \in FetchSet : \E emit \in BOOLEAN :
        /\ r.pc = "paused"
        /\ ~(w_pause /\ ~w_stop)
        /\ XferCommit(FetchPauseLeft(Xfer, r, emit))

FetchStreamError == \E r \in FetchSet : r.pc = "stream" /\ XferCommit(FetchFailed(Xfer, r))

FetchStreamEnd ==
    \E r \in FetchSet :
        /\ r.pc = "stream"
        /\ r.body = << >>
        /\ XferCommit(FetchRenamed(Xfer, r))

FetchEmitDone == \E r \in FetchSet : r.pc = "done" /\ XferCommit(FetchDoneStatus(Xfer, r))

FetchEmitFinished ==
    \E r \in FetchSet : r.pc = "finished" /\ XferCommit(FetchFinishedSignal(Xfer, r))

NextTransfer ==
    \/ PressStart
    \/ PressPause
    \/ PressResume
    \/ PressCancel
    \/ DeliverProgress
    \/ DeliverStatus
    \/ DeliverFinished
    \/ FetchStart
    \/ FetchProbe
    \/ FetchGetError
    \/ FetchGetOk
    \/ FetchNextChunk
    \/ FetchPaused
    \/ FetchUnpaused
    \/ FetchStreamError
    \/ FetchStreamEnd
    \/ FetchEmitDone
    \/ FetchEmitFinished

SpecTransfer == InitTransfer /\ [][NextTransfer]_vars

\* The user starts and cancels; the network does not fail. The pool runs every
\* started execution and the event loop of the main thread delivers every
\* queued signal: the steps other than the user's are weakly fair.
NextReadmit ==
    \/ PressStart
    \/ PressCancel
    \/ DeliverProgress
    \/ DeliverStatus
    \/ DeliverFinished
    \/ FetchStart
    \/ FetchProbe
    \/ FetchGetOk
    \/ FetchNextChunk
    \/ FetchStreamEnd
    \/ FetchEmitDone
    \/ FetchEmitFinished

Scheduled ==
    \/ DeliverProgress
    \/ DeliverStatus
    \/ DeliverFinished
    \/ FetchStart
    \/ FetchProbe
    \/ FetchGetOk
    \/ FetchNextChunk
    \/ FetchStreamEnd
    \/ FetchEmitDone
    \/ FetchEmitFinished

SpecReadmit == InitTransfer /\ [][NextReadmit]_vars /\ WF_vars(Scheduled)

\* The user only starts the item: one run, no pause, no cancel, no failure of
\* the network; the chunk writes and the deliveries interleave freely.
NextProgress ==
    \/ PressStart
    \/ DeliverProgress
    \/ DeliverStatus
    \/ DeliverFinished
    \/ FetchStart
    \/ FetchProbe
    \/ FetchGetOk
    \/ FetchNextChunk
    \/ FetchStreamEnd
    \/ FetchEmitDone
    \/ FetchEmitFinished

SpecProgress == InitTransfer /\ [][NextProgress]_vars

\* ---------------------------------------------------------------------------
\* SpecOverall: MainWindow._update_overall over the item collection
\* ---------------------------------------------------------------------------

\* Python's `a or b` on numbers (None is 0 here)
OrElse(a, b) == IF a # 0 THEN a ELSE b

\* total = sum(it.size or 0 for it in self.items), over the first n items
RECURSIVE SumSizes(_, _)
SumSizes(c, n) ==
    IF n = 0 THEN 0 ELSE SumSizes(c, n - 1) + OrElse(c[n].size, 0)

\* (mutant of SumDone) an item of unknown size counts for nothing
RECURSIVE SumDoneKnown(_, _)
SumDoneKnown(c, n) ==
    IF n = 0 THEN 0
    ELSE SumDoneKnown(c, n - 1) + Min({c[n].downloaded, OrElse(c[n].size, 0)})

\* done = sum(min(it.downloaded, it.size or it.downloaded) for it in self.items)
RECURSIVE SumDone(_, _)
SumDone(c, n) ==
    IF n = 0 THEN 0
    ELSE SumDone(c, n - 1) + Min({c[n].downloaded, OrElse(c[n].size, c[n].downloaded)})

\* finished = sum(1 for it in self.items if it.status == "Done")
CountDone(c) == Cardinality({n \in DOMAIN c : c[n].status = "Done"})

\* pct: int(1000 * (done / total)), or int(1000 * (finished / len(self.items)))
Pct(c, total, done) ==
    IF total > 0 THEN (1000 * done) \div total
    ELSE IF c # << >> THEN (1000 * CountDone(c)) \div Len(c)
    ELSE 0

UpdateOverall(c) == Pct(c, SumSizes(c, Len(c)), SumDone(c, Len(c)))

\* the slot has changed the collection to c and ends with _update_overall
Refreshed(c) ==
    /\ collection' = c
    /\ overall_bar' = UpdateOverall(c)
    /\ fresh' = TRUE
    /\ UNCHANGED schedulerVars
    /\ UNCHANGED transferVars

\* _add_item: a Queued item of unknown size; _update_overall is not called
OverallAdd ==
    /\ Len(collection) < MaxRows
    /\ collection' = Append(collection, [size |-> 0, downloaded |-> 0, status |-> "Queued"])
    /\ fresh' = FALSE
    /\ UNCHANGED overall_bar
    /\ UNCHANGED schedulerVars
    /\ UNCHANGED transferVars

\* on_progress(index, downloaded, total); total is -1 when the size is unknown
OverallProgress ==
    \E n \in DOMAIN collection : \E d \in 0..MaxSize : \E total \in {-1} \cup (1..MaxSize) :
        /\ total > 0 => d <= total
        /\ Refreshed([collection EXCEPT ![n].downloaded = d,
                                        ![n].size = IF total > 0 THEN total ELSE @])

\* on_status(index, status)
OverallStatus ==
    \E n \in DOMAIN collection : \E st \in {"Downloading", "Done"} :
        Refreshed([collection EXCEPT ![n].status = st])

\* remove_selected of one row
OverallRemove ==
    \E n \in DOMAIN collection : Refreshed(DeleteAt(collection, n))

NextOverall ==
    \/ OverallAdd
    \/ OverallProgress
    \/ OverallStatus
    \/ OverallRemove

SpecOverall == Init /\ [][NextOverall]_vars

\* ---------------------------------------------------------------------------
\* Properties
\* ---------------------------------------------------------------------------

DownloadingCount ==
    Cardinality({p \in DOMAIN items : status[items[p]] = "Downloading"})

EligibleExists == \E p \in DOMAIN items : status[items[p]] \in Eligible

\* C1: in every reachable state the number of items whose status is
\* Downloading is at most the configured ceiling max_concurrency.
C1_CeilingRespected == DownloadingCount <= max_concurrency

\* a Done, Error or Canceled status event is applied to a Downloading item
TerminalApplied ==
    /\ queue # << >>
    /\ queue' = Tail(queue)
    /\ Head(queue).kind = "status"
    /\ Head(queue).status \in Terminal
    /\ Head(queue).index < Len(items)
    /\ status[items[Head(queue).index + 1]] = "Downloading"

ItemAdded == Len(items') = Len(items) + 1

SlotIdle == DownloadingCount < max_concurrency /\ EligibleExists

\* C2: admission is work-conserving: the handling of a terminal status event
\* of a Downloading item, and the handling of an added item, pump the queue,
\* so that it never ends with a free slot while an eligible item exists.
C2_WorkConserving == [][(TerminalApplied \/ ItemAdded) => ~SlotIdle']_vars

\* pump run from state pre (the state after resume_selected's own loop, or after
\* the ceiling was set) is this step, and it admitted in list order
OrderKept(pre) ==
    \A j \in DOMAIN pre.items :
        (pre.status[pre.items[j]] \in Eligible /\ status'[pre.items[j]] = "Downloading")
        => \A i \in 1..(j - 1) :
              pre.status[pre.items[i]] \in Eligible
              => status'[pre.items[i]] = "Downloading"

PumpStepOrdered(pre) == Commit(User(PumpQueue(pre))) => OrderKept(pre)

\* C3: admission is order-preserving: whenever a pump (of start_queue, of
\* _update_concurrency or of resume_selected) promotes the item at position j,
\* every item before j that was eligible when that pump began is promoted by
\* it too; so the next item promoted is always the first eligible one.
C3_OrderPreserving ==
    [][\A rows \in SUBSET Rows(Cur) : \A val \in 1..InitialConcurrency :
          PumpStepOrdered(ResumeRows([Cur EXCEPT !.maxc = val], rows))]_vars

\* C3 witness: with ceiling 1 and two items, the first has finished (Done) and
\* a pump has then promoted the second: its run is started and has not begun.
C3_Witness ==
    /\ Len(items) = 2
    /\ max_concurrency = 1
    /\ status[items[1]] = "Done"
    /\ status[items[2]] = "Downloading"
    /\ \E r \in BagToSet(runs) : r.pc = "start" /\ wItem[r.w] = items[2]

\* C4: a run that found a partial .part file (a prefix of N bytes, 0 < N <
\* the length of the resource) and ran
\* to completion has produced a final file whose bytes are those of the
\* resource, as a fresh download in one pass would, whether the server
\* honoured the range (206, appended from N) or ignored it (200, restarted).
C4_ResumeIdentical ==
    \A r \in FetchSet :
        (r.pc \in {"done", "finished"} /\ r.found > 0 /\ r.found < Len(content))
        => (final_path # 0 /\ inodes[final_path] = content)

\* a step wrote bytes to a file
ChunkWritten == \E i \in InodeIds : inodes'[i] # inodes[i] /\ inodes'[i] # << >>

\* a run begins while the .part file exists and takes its length as the offset
ResumeAtLength ==
    \A r \in FetchSet :
        (r.pc = "start" /\ temp_path # 0 /\ XferCommit(FetchBegin(Xfer, r)))
        => \E r2 \in BagToSet(executions') :
              r2.pc = "probe" /\ r2.resume_from = Len(inodes[temp_path])

\* C5: once a cancel is requested no chunk is written any more, so that the
\* .part file keeps the length it had, and a run that begins takes exactly the
\* length of the .part file as its resume offset.
C5_CancelKeepsPart == [][(w_stop => ~ChunkWritten) /\ ResumeAtLength]_vars

\* C6: whenever the size is known, the item's downloaded is at most its size,
\* in every state and in every progress event that waits to be applied (the
\* reset to zero of a range-rejected restart is within the bound).
C6_DownloadedWithinSize ==
    /\ size > 0 => downloaded <= size
    /\ \A i \in DOMAIN signals :
          (signals[i].kind = "progress" /\ signals[i].total > 0)
          => signals[i].downloaded <= signals[i].total

\* the run r has written its last chunk and renames the .part file
Completes(r) ==
    /\ r.pc = "stream"
    /\ r.body = << >>
    /\ temp_path # 0
    /\ XferCommit(FetchRenamed(Xfer, r))

\* C7: when a run completes, the byte count of the final progress event it
\* emits is the true size of the final file, under every interleaving of the
\* worker's writes with the controller's application of earlier events.
C7_FinalCountTrue ==
    [][\A r \in FetchSet :
          Completes(r) => signals'[Len(signals')].downloaded = Len(inodes'[final_path'])]_vars

\* C8: extract_all is called at most once per batch completion: never again
\* for a batch (same list, every item terminal ever since) it was called for.
C8_ExtractOnce == ~extractAgain

\* C9: extract_all is never called with an empty list, with an item that is
\* Queued, Downloading or Paused, or with extraction disabled.
C9_ExtractGuarded ==
    extractNow => (items # << >> /\ AllTerminal(Cur) /\ chk_extract)

Quiescent == runs = EmptyBag /\ queue = << >>

\* C10: when every item of a non-empty list is terminal and extraction is
\* enabled, extract_all is eventually called: once nothing is running and no
\* event is pending, it has been called for this batch.
C10_ExtractEventually ==
    (items # << >> /\ AllTerminal(Cur) /\ chk_extract /\ Quiescent) => batchDone

\* C11: at any time an item has at most one worker and that worker at most
\* one execution of run that was started and has not ended: no two executions
\* in the pool belong to the same item.
C11_OneRunPerItem ==
    \A r1 \in BagToSet(runs) :
        /\ CopiesIn(r1, runs) = 1
        /\ \A r2 \in BagToSet(runs) : wItem[r1.w] = wItem[r2.w] => r1 = r2

\* no run of item i is in the pool and no event waits to be applied
Settled(i) ==
    /\ queue = << >>
    /\ \A r \in BagToSet(runs) : wItem[r.w] # i

\* C12: in every reachable state an item of the list is Done if and only if
\* its final file exists: a Done item has its final file, and an item whose
\* final file exists is Done as soon as no run of it is alive and no event is
\* pending; pause, resume, cancel, re-admission and cleanup preserve this.
C12_DoneIffFinal ==
    \A p \in DOMAIN items :
        /\ status[items[p]] = "Done" => finalFile[items[p]]
        /\ (finalFile[items[p]] /\ Settled(items[p])) => status[items[p]] = "Done"

\* every worker stored in the map is stored under the row that displays its item
Rebound ==
    \A k \in Keys :
        workers[k] # 0
        => (k < Len(items) /\ items[k + 1] = wItem[workers[k]]
            /\ index[wItem[workers[k]]] = k)

\* C13: after remove_selected the worker map is rebound to the new rows: the
\* worker stored under key k owns the item that is now at position k.
C13_MapRebound ==
    [][(\E rows \in (SUBSET Rows(Cur)) \ {{}} : Commit(User(RemoveSelected(Cur, rows))))
       => Rebound']_vars

\* C14: the value the aggregator gives to the bar is within 0..1000 (the
\* fraction within [0,1]) for every collection, also one that mixes items of
\* known size with items of unknown size that have transferred bytes.
C14_BarInRange == overall_bar \in 0..1000

\* the reference: the sum of the known sizes
RECURSIVE RefKnown(_, _)
RefKnown(c, n) ==
    IF n = 0 THEN 0
    ELSE RefKnown(c, n - 1) + (IF c[n].size > 0 THEN c[n].size ELSE 0)

\* the reference: min(transferred, size), transferred when the size is unknown
RECURSIVE RefTransferred(_, _)
RefTransferred(c, n) ==
    IF n = 0 THEN 0
    ELSE RefTransferred(c, n - 1)
         + (IF c[n].size > 0 /\ c[n].size < c[n].downloaded THEN c[n].size
            ELSE c[n].downloaded)

RefPct(c) ==
    IF RefKnown(c, Len(c)) > 0
    THEN (1000 * RefTransferred(c, Len(c))) \div RefKnown(c, Len(c))
    ELSE IF Len(c) = 0 THEN 0
    ELSE (1000 * Cardinality({n \in 1..Len(c) : c[n].status = "Done"})) \div Len(c)

\* C15: the aggregator's result is the reference formula applied to the
\* collection: sum of min(transferred, size) (transferred when the size is
\* unknown) over the sum of the known sizes when that is positive, else the
\* share of Done items, 0 for an empty collection.
C15_OverallIsReference == fresh => overall_bar = RefPct(collection)

\* C15 witness: sizes [2, 2] with transferred [1, 2] give 0.75 (the claim's
\* [100, 100] and [50, 100] at scale)
C15_Witness ==
    /\ fresh
    /\ Len(collection) = 2
    /\ collection[1].size = 2 /\ collection[1].downloaded = 1
    /\ collection[2].size = 2 /\ collection[2].downloaded = 2
    /\ overall_bar = 750

PumpedOnce == PumpQueue(Cur)

PumpedTwice == PumpQueue(PumpedOnce)

SameScheduling(a, b) ==
    /\ a.status = b.status
    /\ a.workers = b.workers
    /\ a.wItem = b.wItem
    /\ a.runs = b.runs

\* C16: _pump_queue is idempotent: in every reachable state, running it twice
\* in succession with no event in between leaves the statuses, the worker map
\* and the started runs as running it once does.
C16_PumpIdempotent == PumpedTwice.ok => SameScheduling(PumpedTwice, PumpedOnce)

\* the item was admitted: a worker was created for it and started
Attempted(i) == \E w \in WorkerIds : wItem[w] = i

\* C17: a network failure of the fetch (at the GET or while streaming) ends the
\* attempt with the item's status set to Error: where every fetch fails, an
\* item of the list that was admitted, with no run left and no event
\* outstanding, has status Error.
C17_FailureIsError ==
    \A p \in DOMAIN items :
        (Attempted(items[p]) /\ Settled(items[p])) => status[items[p]] = "Error"

\* C18: a filesystem failure during a transfer (creating the directory, opening
\* or writing the .part file, the final rename) is treated as a failure of the
\* transfer: an admitted item with no run left and no event outstanding is not
\* in status Downloading.
C18_DiskFailureIsError ==
    \A p \in DOMAIN items :
        (Attempted(items[p]) /\ Settled(items[p])) => status[items[p]] # "Downloading"

\* the pump has just promoted the item again after a cancel: its worker, with
\* the cancel request it received, is started, no earlier run is left, no
\* event is outstanding, and the user does nothing more
Readmitted ==
    /\ item_status = "Downloading"
    /\ w_stop
    /\ executions = SetToBag({NewRun})
    /\ signals = << >>
    /\ presses = MaxPresses

\* C19: a Canceled item promoted by the pump restarts the fetch from the
\* partial file and, with no new pause or cancel and no network failure,
\* eventually reaches Done.
C19_ReadmittedCompletes == Readmitted ~> (item_status = "Done")

\* the step ends the run by emitting Canceled and leaves the files as they are
EndsCanceled ==
    /\ inodes' = inodes
    /\ temp_path' = temp_path
    /\ final_path' = final_path
    /\ BagCardinality(executions') = BagCardinality(executions) - 1
    /\ signals' = Append(signals, [kind |-> "status", status |-> "Canceled",
                                   downloaded |-> 0, total |-> 0])

\* C20: once a cancel is requested for a run blocked in the pause loop between
\* chunks, the run writes no further chunk, does not rename the .part file and
\* ends by emitting Canceled: its step out of the pause loop does just that.
C20_CancelInPause ==
    [][\A r \in FetchSet : \A emit \in BOOLEAN :
          (r.pc = "paused" /\ w_stop /\ XferCommit(FetchPauseLeft(Xfer, r, emit)))
          => EndsCanceled]_vars

\* C21: within one item the byte counts of the progress events are applied in
\* non-decreasing order under every interleaving of chunk writes and
\* deliveries: the events of the one run, which are applied in the order of
\* the queue, wait in it in non-decreasing order of their byte counts.
C21_ProgressMonotone ==
    \A i \in DOMAIN signals : \A j \in DOMAIN signals :
        (i < j /\ signals[i].kind = "progress" /\ signals[j].kind = "progress")
        => signals[i].downloaded <= signals[j].downloaded

\* C22: every event is applied to the item of the task that emitted it, also
\* when rows were removed or compacted between emission and application; in
\* particular no event that waits to be applied addresses a row outside the
\* list.
C22_EventsAddressRows == \A n \in DOMAIN queue : queue[n].index < Len(items)

\* the step puts item i of the list into status Downloading
BecomesDownloading(i) == status[i] # "Downloading" /\ status'[i] = "Downloading"

\* C23: an item in status Downloading has a run that was started and has not
\* ended: no operation of the user (resume of an item whose run has ended as
\* Done, Error or Canceled in particular) puts an item into Downloading
\* without a run of its worker being in the pool; stated for the operations
\* that happen while no event waits to be applied.
C23_DownloadingHasRun ==
    [][(ops' # ops /\ queue = << >>) =>
          \A p \in DOMAIN items' :
              BecomesDownloading(items'[p])
              => \E r \in BagToSet(runs') : wItem'[r.w] = items'[p]]_vars

\* C24: the running count that the pump computes equals the number of items
\* of the list whose status is Downloading, in every reachable state, those
\* after remove_selected and clear_finished included.
C24_ActiveIsDownloading == ActiveCount(Cur) = DownloadingCount
====
